---- MODULE Spec2Model ----
(***************************************************************************)
(* hotsauce: regex search over iterators of bytes (src/src/lib.rs).        *)
(*                                                                         *)
(* A Regex owns a forward and a reversed-pattern automaton.  A Matches     *)
(* iterator borrows one of them, owns a Peekable byte source, a position   *)
(* counter (next_index) and the needs_advance flag, and emits ranges from  *)
(* next().  The automaton is an opaque oracle (regex_automata's DenseDFA): *)
(* it is modelled as a transition table drawn from a bounded family.       *)
(*                                                                         *)
(* Option<T> values are sequences of length <= 1: <<>> is None and <<v>>   *)
(* is Some(v).  A Range is a record [start, end].                          *)
(***************************************************************************)
EXTENDS Integers, Sequences, FiniteSets, TLC

\* Longest haystack drawn in Init.
MaxLen == 3

\* The bytes haystacks are made of ("a", "b").
Bytes == {97, 98}

\* State ids of the forward automata; 0 is the dead state.
StateIds == 0 .. 3
LiveIds == StateIds \ {0}

Haystacks == UNION {[1 .. n -> Bytes] : n \in 0 .. MaxLen}

\* Longest haystack of a scan that runs beside another one.
MaxShared == 2

SharedHaystacks == UNION {[1 .. n -> Bytes] : n \in 0 .. MaxShared}

\* Length of the haystacks of the scans that need four bytes.
MaxLong == 4

LongHaystacks == [1 .. MaxLong -> Bytes]

\* A number naming the haystack h, one per haystack.
RECURSIVE HayCode(_)
HayCode(h) == IF h = <<>> THEN 0 ELSE (h[1] - 96) + 3 * HayCode(Tail(h))

Reverse(s) == [k \in 1 .. Len(s) |-> s[Len(s) + 1 - k]]

----------------------------------------------------------------------------
(* The automaton oracle: DenseDFA<Vec<usize>, usize>.                      *)

\* A total transition table over LiveIds, with the dead state absorbing.
WithDead(t) ==
    [p \in StateIds \X Bytes |-> IF p[1] = 0 THEN 0 ELSE t[p]]

\* The live states a table reaches from state 1.
RECURSIVE Reach(_, _)
Reach(t, S) ==
    LET T == S \cup ({t[<<q, b>>] : q \in S, b \in Bytes} \ {0})
    IN IF T = S THEN S ELSE Reach(t, T)

\* One table per renaming of the state ids: the start state is 1, state 3 is
\* used only by tables that use state 2 and is not discovered before it, and a
\* state the start state does not reach has no transitions and does not match.
Canonical(t, m) ==
    LET R == Reach(t, {1})
    IN /\ 3 \in R => 2 \in R
       /\ t[<<1, 97>>] # 3
       /\ t[<<1, 97>>] # 2 => t[<<1, 98>>] # 3
       /\ \A q \in LiveIds \ R : q \notin m /\ \A b \in Bytes : t[<<q, b>>] = 0

\* Forward automata whose start state is live: every table, every match set.
LiveAutomata ==
    {[reverse |-> FALSE, start |-> 1, match_states |-> m, delta |-> WithDead(t)] :
        <<t, m>> \in {x \in [LiveIds \X Bytes -> StateIds] \X SUBSET LiveIds :
                        Canonical(x[1], x[2])}}

\* The automaton of an unsatisfiable pattern: the start state is the dead state.
DeadAutomaton ==
    [reverse |-> FALSE, start |-> 0, match_states |-> {},
     delta |-> [p \in StateIds \X Bytes |-> 0]]

ForwardAutomata == LiveAutomata \cup {DeadAutomaton}

\* The forward automata that use the state ids 0, 1 and 2 only.
SmallAutomata ==
    {d \in ForwardAutomata :
        \A q \in {1, 2} : \A b \in Bytes : d.delta[<<q, b>>] # 3}

\* The automaton of the reversed pattern, held as the forward automaton it
\* reverses.  Its states are sets of forward states (the subset construction
\* on the reversed transitions): it is in state S after reading w iff S is the
\* set of live forward states from which Reverse(w) leads to a forward match
\* state.  Its dead state is the empty set.
ReversedAutomaton(fw) == [reverse |-> TRUE, of |-> fw]

\* RegexBuilder::build: both automata of one pattern.
Build(fw) == [fw |-> fw, bw |-> ReversedAutomaton(fw)]

\* dfa.start_state()
start_state(d) == IF d.reverse THEN d.of.match_states ELSE d.start

\* dfa.is_dead_state(s)
is_dead_state(d, s) == IF d.reverse THEN s = {} ELSE s = 0

\* dfa.is_match_state(s)
is_match_state(d, s) == IF d.reverse THEN d.of.start \in s ELSE s \in d.match_states

\* dfa.next_state_unchecked(s, b)
next_state_unchecked(d, s, b) ==
    IF d.reverse
    THEN {q \in LiveIds : d.of.delta[<<q, b>>] \in s}
    ELSE d.delta[<<s, b>>]

\* The state the automaton is in after reading w from state s.
RECURSIVE Run(_, _, _)
Run(d, s, w) ==
    IF w = <<>> THEN s
    ELSE Run(d, next_state_unchecked(d, s, Head(w)), Tail(w))

----------------------------------------------------------------------------
(* The byte source: Peekable<Haystack> over a finite iterator.             *)

\* Haystack::next of the underlying iterator: a drained one keeps saying None.
IterNext(it) ==
    IF it.pos < Len(it.bytes)
    THEN [item |-> <<it.bytes[it.pos + 1]>>, iter |-> [it EXCEPT !.pos = @ + 1]]
    ELSE [item |-> <<>>, iter |-> it]

\* Peekable::next: the peeked item if there is one, else the iterator's next.
PeekableNext(h) ==
    IF h.peeked # <<>>
    THEN [item |-> h.peeked[1], h |-> [h EXCEPT !.peeked = <<>>]]
    ELSE LET r == IterNext(h.iter)
         IN [item |-> r.item, h |-> [h EXCEPT !.iter = r.iter]]

\* Mutant of PeekablePeek: the byte looked at is taken out of the source.
PeekableTake(h) ==
    IF h.peeked # <<>>
    THEN [item |-> h.peeked[1], h |-> [h EXCEPT !.peeked = <<>>]]
    ELSE LET r == IterNext(h.iter)
         IN [item |-> r.item, h |-> [h EXCEPT !.iter = r.iter]]

\* Mutant of PeekablePeek: every peek pulls a new item from the iterator.
PeekablePullsAgain(h) ==
    LET r == IterNext(h.iter)
    IN [item |-> r.item, h |-> [iter |-> r.iter, peeked |-> <<r.item>>]]

\* Peekable::peek: pulls the iterator's next into the peeked slot if it is empty.
PeekablePeek(h) ==
    IF h.peeked # <<>>
    THEN [item |-> h.peeked[1], h |-> h]
    ELSE LET r == IterNext(h.iter)
         IN [item |-> r.item, h |-> [iter |-> r.iter, peeked |-> <<r.item>>]]

\* haystack.peekable() of Matches::new.
NewPeekable(bytes) == [iter |-> [bytes |-> bytes, pos |-> 0], peeked |-> <<>>]

----------------------------------------------------------------------------
VARIABLES
    regex,          \* the Regex: [fw, bw]
    dfa,            \* dfa[i]: which automaton iterator i borrows, "fw" or "bw"
    haystack,       \* haystack[i]: the Peekable source of iterator i
    next_index,     \* next_index[i]: the position counter
    needs_advance,  \* needs_advance[i]: the must-advance flag
    pc,             \* pc[i]: where iterator i's current next() call is
    states,         \* states[i]: the candidate list of the running sweep
    remaining,      \* remaining[i]: the frame of match_remaining
    ret,            \* ret[i]: <<>> before any call, else <<v>>, v the last return value
    emitted         \* emitted[i]: the ranges returned so far, in order

vars == <<regex, dfa, haystack, next_index, needs_advance, pc, states,
          remaining, ret, emitted>>

Iters == DOMAIN pc

Automaton(i) == IF dfa[i] = "fw" THEN regex.fw ELSE regex.bw

\* The bytes iterator i was given, and how many of them it has consumed.
Hay(i) == haystack[i].iter.bytes
Pulled(i) == haystack[i].iter.pos
Consumed(i) ==
    Pulled(i) - (IF haystack[i].peeked # <<>> /\ haystack[i].peeked[1] # <<>>
                 THEN 1 ELSE 0)

NoFrame == [state |-> 0, start |-> 0, caller |-> "none"]

\* Mutant of NewMatches: the position counter is not reset for a new scan.
NewMatchesStale(r, which, hays) ==
    /\ regex = r
    /\ dfa = which
    /\ haystack = [i \in DOMAIN which |-> NewPeekable(hays[i])]
    /\ next_index = [i \in DOMAIN which |-> i - 1]
    /\ needs_advance = [i \in DOMAIN which |-> FALSE]
    /\ pc = [i \in DOMAIN which |-> "idle"]
    /\ states = [i \in DOMAIN which |-> <<>>]
    /\ remaining = [i \in DOMAIN which |-> NoFrame]
    /\ ret = [i \in DOMAIN which |-> <<>>]
    /\ emitted = [i \in DOMAIN which |-> <<>>]

\* Matches::new for every iterator of the scan.
NewMatches(r, which, hays) ==
    /\ regex = r
    /\ dfa = which
    /\ haystack = [i \in DOMAIN which |-> NewPeekable(hays[i])]
    /\ next_index = [i \in DOMAIN which |-> 0]
    /\ needs_advance = [i \in DOMAIN which |-> FALSE]
    /\ pc = [i \in DOMAIN which |-> "idle"]
    /\ states = [i \in DOMAIN which |-> <<>>]
    /\ remaining = [i \in DOMAIN which |-> NoFrame]
    /\ ret = [i \in DOMAIN which |-> <<>>]
    /\ emitted = [i \in DOMAIN which |-> <<>>]

\* Regex::matches: Matches::new(&self.fw, haystack)
matches == "fw"

\* Mutant of rmatches: the backward scan borrows the forward automaton.
rmatches_fw == "fw"

\* Regex::rmatches: Matches::new(&self.bw, haystack)
rmatches == "bw"

\* regex.matches(H): one forward scan of one haystack.
Init ==
    \E fw \in ForwardAutomata, H \in Haystacks :
        NewMatches(Build(fw), <<matches>>, <<H>>)

\* regex.matches(H) for the automata with two live states.
InitFair ==
    \E fw \in SmallAutomata, H \in Haystacks :
        NewMatches(Build(fw), <<matches>>, <<H>>)

\* regex.matches(H) over a haystack of MaxLong bytes.
InitLong ==
    \E fw \in ForwardAutomata, H \in LongHaystacks :
        NewMatches(Build(fw), <<matches>>, <<H>>)

\* regex.matches(H1) and regex.matches(H2): two scans sharing one automaton.
\* The two scans are interchangeable, so each pair of haystacks is taken in
\* one order only.
InitShared ==
    \E fw \in SmallAutomata, H1 \in SharedHaystacks, H2 \in SharedHaystacks :
        /\ HayCode(H1) <= HayCode(H2)
        /\ NewMatches(Build(fw), <<matches, matches>>, <<H1, H2>>)

\* regex.matches(H) and regex.rmatches(reverse(H)) of one Regex.
InitSym ==
    \E fw \in ForwardAutomata, H \in Haystacks :
        NewMatches(Build(fw), <<matches, rmatches>>, <<H, Reverse(H)>>)

----------------------------------------------------------------------------
(* Matches::next, one action per step of the call.                         *)

\* The call returns v (None or Some(range)).
Return(i, v) ==
    /\ ret' = [ret EXCEPT ![i] = <<v>>]
    /\ emitted' = [emitted EXCEPT ![i] = @ \o v]
    /\ pc' = [pc EXCEPT ![i] = "idle"]
    /\ states' = [states EXCEPT ![i] = <<>>]
    /\ remaining' = [remaining EXCEPT ![i] = NoFrame]

\* Mutant of Bump: the increment is lost.
BumpLost(n) == n

\* self.next_index += 1
Bump(n) == n + 1

\* Mutant of MatchRange: the end is taken one past the position counter.
MatchRangePastIndex(start, index) == [start |-> start, end |-> index + 1]

\* start..self.next_index
MatchRange(start, index) == [start |-> start, end |-> index]

\* Mutant of IsZeroWidth: the zero-width test never fires.
NeverZeroWidth(mat) == FALSE

\* Mutant of IsZeroWidth: every match is taken for a zero-width one.
AlwaysZeroWidth(mat) == TRUE

\* mat.start == mat.end
IsZeroWidth(mat) == mat.start = mat.end

\* Mutant of NextBegin: the counter and the flag are updated before the
\* source is asked for the byte.
NextBeginAdvancesFirst(i) ==
    /\ pc[i] = "idle"
    /\ UNCHANGED <<regex, dfa>>
    /\ IF needs_advance[i]
       THEN LET r == PeekableNext(haystack[i])
            IN /\ haystack' = [haystack EXCEPT ![i] = r.h]
               /\ next_index' = [next_index EXCEPT ![i] = Bump(@)]
               /\ needs_advance' = [needs_advance EXCEPT ![i] = FALSE]
               /\ IF r.item = <<>>
                  THEN Return(i, <<>>)
                  ELSE /\ pc' = [pc EXCEPT ![i] = "check"]
                       /\ UNCHANGED <<states, remaining, ret, emitted>>
       ELSE /\ pc' = [pc EXCEPT ![i] = "check"]
            /\ UNCHANGED <<haystack, next_index, needs_advance, states,
                           remaining, ret, emitted>>

\* if self.needs_advance { self.haystack.next()?; self.next_index += 1; ... }
NextBegin(i) ==
    /\ pc[i] = "idle"
    /\ UNCHANGED <<regex, dfa>>
    /\ IF needs_advance[i]
       THEN LET r == PeekableNext(haystack[i])
            IN /\ haystack' = [haystack EXCEPT ![i] = r.h]
               /\ IF r.item = <<>>
                  THEN /\ Return(i, <<>>)
                       /\ UNCHANGED <<next_index, needs_advance>>
                  ELSE /\ next_index' = [next_index EXCEPT ![i] = Bump(@)]
                       /\ needs_advance' = [needs_advance EXCEPT ![i] = FALSE]
                       /\ pc' = [pc EXCEPT ![i] = "check"]
                       /\ UNCHANGED <<states, remaining, ret, emitted>>
       ELSE /\ pc' = [pc EXCEPT ![i] = "check"]
            /\ UNCHANGED <<haystack, next_index, needs_advance, states,
                           remaining, ret, emitted>>

\* Mutant of StartIsDead: the dead-start check is skipped.
StartNeverDead(i) == FALSE

\* if dfa.is_dead_state(start_state) { return None; }
StartIsDead(i) == is_dead_state(Automaton(i), start_state(Automaton(i)))

NextDead(i) ==
    /\ pc[i] = "check"
    /\ StartIsDead(i)
    /\ Return(i, <<>>)
    /\ UNCHANGED <<regex, dfa, haystack, next_index, needs_advance>>

\* if dfa.is_match_state(start_state) { self.match_remaining(start_state, self.next_index) ... }
NextStartMatch(i) ==
    LET d == Automaton(i)
    IN /\ pc[i] = "check"
       /\ ~StartIsDead(i)
       /\ is_match_state(d, start_state(d))
       /\ pc' = [pc EXCEPT ![i] = "remaining"]
       /\ remaining' = [remaining EXCEPT ![i] =
              [state |-> start_state(d), start |-> next_index[i], caller |-> "start"]]
       /\ UNCHANGED <<regex, dfa, haystack, next_index, needs_advance, states,
                      ret, emitted>>

\* Mutant of NextSweep: the candidate list is one buffer shared by all scans.
NextSweepSharedBuffer(i) ==
    LET d == Automaton(i)
    IN /\ pc[i] = "check"
       /\ ~is_dead_state(d, start_state(d))
       /\ ~is_match_state(d, start_state(d))
       /\ pc' = [pc EXCEPT ![i] = "sweep"]
       /\ states' = [j \in DOMAIN states |-> <<>>]
       /\ UNCHANGED <<regex, dfa, haystack, next_index, needs_advance,
                      remaining, ret, emitted>>

\* let mut states = vec![];
NextSweep(i) ==
    LET d == Automaton(i)
    IN /\ pc[i] = "check"
       /\ ~StartIsDead(i)
       /\ ~is_match_state(d, start_state(d))
       /\ pc' = [pc EXCEPT ![i] = "sweep"]
       /\ states' = [states EXCEPT ![i] = <<>>]
       /\ UNCHANGED <<regex, dfa, haystack, next_index, needs_advance,
                      remaining, ret, emitted>>

\* for (start, state) in &mut states { ... }: steps the candidates in list
\* order from the k-th on and stops at the first one in a match state.
RECURSIVE ForCandidates(_, _, _, _)
ForCandidates(d, sts, b, k) ==
    IF k > Len(sts)
    THEN [found |-> FALSE, states |-> sts]
    ELSE LET s == next_state_unchecked(d, sts[k][2], b)
             stepped == [sts EXCEPT ![k] = <<sts[k][1], s>>]
         IN IF is_match_state(d, s)
            THEN [found |-> TRUE, states |-> stepped,
                  start |-> sts[k][1], state |-> s]
            ELSE ForCandidates(d, stepped, b, k + 1)

\* Mutant of Retain: the predicate is inverted, live candidates are dropped.
RetainDead(d, sts) == SelectSeq(sts, LAMBDA c : is_dead_state(d, c[2]))

\* Mutant of Retain: nothing is dropped.
RetainAll(d, sts) == sts

\* states.retain(|&(_, state)| !dfa.is_dead_state(state))
Retain(d, sts) == SelectSeq(sts, LAMBDA c : ~is_dead_state(d, c[2]))

\* Mutant of Push: the candidate is pushed after the position counter moved.
PushAfterBump(d, sts, index) == Append(sts, <<index + 1, start_state(d)>>)

\* states.push((self.next_index, start_state))
Push(d, sts, index) == Append(sts, <<index, start_state(d)>>)

\* One iteration of `while let Some(b) = self.haystack.next()`, or its end.
SweepIter(i) ==
    LET d == Automaton(i)
        r == PeekableNext(haystack[i])
    IN /\ pc[i] = "sweep"
       /\ haystack' = [haystack EXCEPT ![i] = r.h]
       /\ UNCHANGED <<regex, dfa, needs_advance>>
       /\ IF r.item = <<>>
          THEN /\ Return(i, <<>>)
               /\ UNCHANGED next_index
          ELSE LET f == ForCandidates(d, Push(d, states[i], next_index[i]),
                                      r.item[1], 1)
               IN /\ next_index' = [next_index EXCEPT ![i] = Bump(@)]
                  /\ UNCHANGED <<ret, emitted>>
                  /\ IF f.found
                     THEN /\ pc' = [pc EXCEPT ![i] = "remaining"]
                          /\ remaining' = [remaining EXCEPT ![i] =
                                 [state |-> f.state, start |-> f.start,
                                  caller |-> "sweep"]]
                          /\ states' = [states EXCEPT ![i] = f.states]
                     ELSE /\ states' = [states EXCEPT ![i] = Retain(d, f.states)]
                          /\ UNCHANGED <<pc, remaining>>

\* match_remaining returns mat to next(), which returns Some(mat).
ReturnMatch(i, mat) ==
    /\ Return(i, <<mat>>)
    /\ needs_advance' = [needs_advance EXCEPT ![i] =
           IF remaining[i].caller = "start" /\ IsZeroWidth(mat) THEN TRUE ELSE @]

\* One iteration of `while let Some(b) = self.haystack.peek().cloned()`, or its end.
MatchRemainingIter(i) ==
    LET d == Automaton(i)
        p == PeekablePeek(haystack[i])
        mat == MatchRange(remaining[i].start, next_index[i])
    IN /\ pc[i] = "remaining"
       /\ UNCHANGED <<regex, dfa>>
       /\ IF p.item = <<>>
          THEN /\ haystack' = [haystack EXCEPT ![i] = p.h]
               /\ ReturnMatch(i, mat)
               /\ UNCHANGED next_index
          ELSE LET s == next_state_unchecked(d, remaining[i].state, p.item[1])
               IN IF ~is_match_state(d, s)
                  THEN /\ haystack' = [haystack EXCEPT ![i] = p.h]
                       /\ ReturnMatch(i, mat)
                       /\ UNCHANGED next_index
                  ELSE /\ next_index' = [next_index EXCEPT ![i] = Bump(@)]
                       /\ haystack' = [haystack EXCEPT ![i] = PeekableNext(p.h).h]
                       /\ remaining' = [remaining EXCEPT ![i].state = s]
                       /\ UNCHANGED <<needs_advance, pc, states, ret, emitted>>

Next ==
    \/ \E i \in Iters : NextBegin(i)
    \/ \E i \in Iters : NextDead(i)
    \/ \E i \in Iters : NextStartMatch(i)
    \/ \E i \in Iters : NextSweep(i)
    \/ \E i \in Iters : SweepIter(i)
    \/ \E i \in Iters : MatchRemainingIter(i)

Spec == Init /\ [][Next]_vars

\* One forward scan whose caller keeps calling next() and whose calls keep
\* running: a step that can be taken is eventually taken.
SpecFair == InitFair /\ [][Next]_vars /\ WF_vars(Next)

\* One forward scan of a haystack of MaxLong bytes.
SpecLong == InitLong /\ [][Next]_vars

\* Two scans of one Regex, their next() calls interleaved in any order.
SpecShared == InitShared /\ [][Next]_vars

\* The last completed next() call of iterator i returned None.
ReturnedNone(i) == pc[i] = "idle" /\ ret[i] = << <<>> >>

\* collect(): the iterators are drained one after the other, each until its
\* first None.
Collecting(i) ==
    /\ ~ReturnedNone(i)
    /\ \A j \in Iters : j < i => ReturnedNone(j)

NextCollect ==
    \/ \E i \in Iters : Collecting(i) /\ NextBegin(i)
    \/ \E i \in Iters : Collecting(i) /\ NextDead(i)
    \/ \E i \in Iters : Collecting(i) /\ NextStartMatch(i)
    \/ \E i \in Iters : Collecting(i) /\ NextSweep(i)
    \/ \E i \in Iters : Collecting(i) /\ SweepIter(i)
    \/ \E i \in Iters : Collecting(i) /\ MatchRemainingIter(i)

\* The forward scan of H and the backward scan of reverse(H), both collected.
SpecSym == InitSym /\ [][NextCollect]_vars

TypeOK ==
    \A i \in Iters :
        /\ next_index[i] \in 0 .. Len(Hay(i))
        /\ pc[i] \in {"idle", "check", "sweep", "remaining"}
        /\ needs_advance[i] \in BOOLEAN
        /\ Len(ret[i]) <= 1

----------------------------------------------------------------------------
(* What the claims speak of.                                               *)

\* H[p..q) of iterator i's source is accepted: the automaton, run from its
\* start state over the bytes at positions p, ..., q-1, ends in a match state.
Accepts(i, p, q) ==
    LET d == Automaton(i)
    IN is_match_state(d, Run(d, start_state(d), SubSeq(Hay(i), p + 1, q)))

\* Where scanning resumes after the emissions em: the end of the last range,
\* plus one if that range was zero-width, or 0 if there is none.
ScanPos(em) ==
    IF em = <<>> THEN 0
    ELSE LET r == em[Len(em)]
         IN IF r.start = r.end THEN r.end + 1 ELSE r.end

\* The last completed next() call of iterator i returned Some(a zero-width range).
ReturnedZeroWidth(i) ==
    /\ pc[i] = "idle"
    /\ ret[i] # <<>>
    /\ ret[i][1] # <<>>
    /\ ret[i][1][1].start = ret[i][1][1].end

\* C1: every emitted range is start..end with 0 <= start <= end <= |H|, and
\* consecutive emissions do not overlap: end_i <= start_{i+1}.
RangesOrdered ==
    \A i \in Iters : \A k \in 1 .. Len(emitted[i]) :
        /\ 0 <= emitted[i][k].start
        /\ emitted[i][k].start <= emitted[i][k].end
        /\ emitted[i][k].end <= Len(Hay(i))
        /\ k > 1 => emitted[i][k - 1].end <= emitted[i][k].start

\* Two back-to-back ranges of non-zero width have been emitted.
RangesOrderedWitness ==
    \E i \in Iters :
        /\ Len(emitted[i]) >= 2
        /\ emitted[i][1].start < emitted[i][1].end
        /\ emitted[i][1].end = emitted[i][2].start
        /\ emitted[i][2].start < emitted[i][2].end

\* Where scanning stood before the k-th emission of iterator i.
ScanPosBefore(i, k) == ScanPos(SubSeq(emitted[i], 1, k - 1))

\* C2: every emitted match is the leftmost one: no accepted H[p..q) has its
\* start p between the scan position before the emission and the emitted start.
Leftmost ==
    \A i \in Iters : \A k \in 1 .. Len(emitted[i]) :
        \A p \in ScanPosBefore(i, k) .. emitted[i][k].start - 1 :
            \A q \in p .. Len(Hay(i)) : ~Accepts(i, p, q)

\* C3: every emitted match is the longest one for its start: no accepted
\* H[start..q) has q beyond the emitted end.
Longest ==
    \A i \in Iters : \A k \in 1 .. Len(emitted[i]) :
        \A q \in emitted[i][k].end + 1 .. Len(Hay(i)) :
            ~Accepts(i, emitted[i][k].start, q)

\* C9: every emitted range is accepted: the automaton run over exactly the
\* bytes at positions start, ..., end-1 ends in a match state.
RealOccurrence ==
    \A i \in Iters : \A k \in 1 .. Len(emitted[i]) :
        Accepts(i, emitted[i][k].start, emitted[i][k].end)

\* A range of two or more bytes that does not start at 0 has been emitted.
RealOccurrenceWitness ==
    \E i \in Iters : \E k \in 1 .. Len(emitted[i]) :
        /\ emitted[i][k].start > 0
        /\ emitted[i][k].end >= emitted[i][k].start + 2

\* Iterator i takes a step of its next() call.
Steps(i) ==
    \/ pc'[i] # pc[i]
    \/ ret'[i] # ret[i]
    \/ haystack'[i] # haystack[i]
    \/ states'[i] # states[i]
    \/ remaining'[i] # remaining[i]

\* C4: a zero-width match is not re-emitted at the same position: the call
\* after one that returned p..p first consumes exactly one byte, moving the
\* position counter to p+1, or returns None if the source is drained; and the
\* starts of the emitted ranges are strictly increasing.
ZeroWidthProgress ==
    /\ [](\A i \in Iters : \A k \in 2 .. Len(emitted[i]) :
            emitted[i][k - 1].start < emitted[i][k].start)
    /\ [][\A i \in Iters :
            ReturnedZeroWidth(i) /\ Steps(i) =>
                \/ /\ pc'[i] = "check"
                   /\ Consumed(i)' = Consumed(i) + 1
                   /\ next_index'[i] = ret[i][1][1].end + 1
                   /\ emitted'[i] = emitted[i]
                \/ /\ Consumed(i) = Len(Hay(i))
                   /\ Consumed(i)' = Consumed(i)
                   /\ ReturnedNone(i)'
                   /\ emitted'[i] = emitted[i]]_vars

\* A zero-width range was emitted before the end of input, and a later call
\* emitted a range after it.
ZeroWidthProgressWitness ==
    \E i \in Iters : \E k \in 2 .. Len(emitted[i]) :
        /\ emitted[i][k - 1].start = emitted[i][k - 1].end
        /\ emitted[i][k - 1].end < Len(Hay(i))
        /\ emitted[i][k].start < emitted[i][k].end

\* The automaton of iterator i is that of the empty pattern: the start state
\* is a match state and every transition out of it leads to a non-match state.
EmptyPattern(i) ==
    LET d == Automaton(i)
    IN /\ is_match_state(d, start_state(d))
       /\ \A b \in Bytes :
            ~is_match_state(d, next_state_unchecked(d, start_state(d), b))

\* C5: with the empty pattern, a haystack of length n yields exactly the n+1
\* ranges 0..0, 1..1, ..., n..n in that order and then None.
EmptyPatternDensity ==
    \A i \in Iters : EmptyPattern(i) =>
        /\ Len(emitted[i]) <= Len(Hay(i)) + 1
        /\ \A k \in 1 .. Len(emitted[i]) :
             emitted[i][k] = [start |-> k - 1, end |-> k - 1]
        /\ ReturnedNone(i) => Len(emitted[i]) = Len(Hay(i)) + 1

\* The empty pattern has scanned a haystack of two or more bytes to the end.
EmptyPatternDensityWitness ==
    \E i \in Iters :
        /\ EmptyPattern(i)
        /\ Len(Hay(i)) >= 2
        /\ ReturnedNone(i)
        /\ Len(emitted[i]) = Len(Hay(i)) + 1

\* C6: with a dead start state every call returns None, no byte is pulled
\* from the source, the position counter stays 0 and nothing else changes.
DeadStartExhausted ==
    \A i \in Iters :
        is_dead_state(Automaton(i), start_state(Automaton(i))) =>
            /\ emitted[i] = <<>>
            /\ ret[i] \in {<<>>, << <<>> >>}
            /\ Pulled(i) = 0
            /\ haystack[i].peeked = <<>>
            /\ next_index[i] = 0
            /\ ~needs_advance[i]
            /\ pc[i] \in {"idle", "check"}

\* A call on a non-empty haystack has returned None for a dead start state.
DeadStartExhaustedWitness ==
    \E i \in Iters :
        /\ is_dead_state(Automaton(i), start_state(Automaton(i)))
        /\ Len(Hay(i)) > 0
        /\ ReturnedNone(i)

\* C8: no match is lost: a call returns None only if no accepted H[p..q)
\* starts at or after the scan position.
NoMatchLost ==
    \A i \in Iters : ReturnedNone(i) =>
        \A p \in ScanPos(emitted[i]) .. Len(Hay(i)) :
            \A q \in p .. Len(Hay(i)) : ~Accepts(i, p, q)

\* Two disjoint ranges were emitted, the second one found after a gap and
\* ending exactly at end-of-input, and then None.
NoMatchLostWitness ==
    \E i \in Iters :
        /\ ReturnedNone(i)
        /\ Len(emitted[i]) = 2
        /\ emitted[i][1].end < emitted[i][2].start
        /\ emitted[i][2].start < emitted[i][2].end
        /\ emitted[i][2].end = Len(Hay(i))

\* C10: the position counter equals the number of bytes consumed from the
\* source, and a step leaves it alone or adds exactly 1 to it.
PositionCountsBytes ==
    /\ [](\A i \in Iters : next_index[i] = Consumed(i))
    /\ [][\A i \in Iters :
            /\ next_index'[i] \in {next_index[i], next_index[i] + 1}
            /\ next_index'[i] - next_index[i] = Consumed(i)' - Consumed(i)]_vars

\* Bytes were counted by the forced advance and by match extension: after a
\* zero-width match at 0, a range of two or more bytes starting at or after
\* position 1 was emitted.
PositionCountsBytesWitness ==
    \E i \in Iters :
        /\ Len(emitted[i]) >= 2
        /\ emitted[i][1] = [start |-> 0, end |-> 0]
        /\ emitted[i][2].start >= 1
        /\ emitted[i][2].end >= emitted[i][2].start + 2
        /\ next_index[i] = Consumed(i)

\* The set of ranges iterator i has emitted.
RangeSet(i) == {emitted[i][k] : k \in 1 .. Len(emitted[i])}

\* (s, e) -> (|H|-e, |H|-s)
Mirror(r, n) == [start |-> n - r.end, end |-> n - r.start]

\* Iterator 1 scanned H forward, iterator 2 scanned reverse(H) backward, both
\* to the end.
BothCollected ==
    /\ Iters = {1, 2}
    /\ Hay(2) = Reverse(Hay(1))
    /\ ReturnedNone(1)
    /\ ReturnedNone(2)

\* C7 as stated: the ranges of the forward scan of H and those of the backward
\* scan of reverse(H) are mirror images of each other.
MirrorSymmetry ==
    BothCollected =>
        RangeSet(1) = {Mirror(r, Len(Hay(1))) : r \in RangeSet(2)}

\* The accepted substrings of iterator i's haystack.
Occurrences(i) ==
    {x \in (0 .. Len(Hay(i))) \X (0 .. Len(Hay(i))) :
        x[1] <= x[2] /\ Accepts(i, x[1], x[2])}

\* Every accepted substring is non-empty and no two of them share a byte.
DisjointOccurrences(i) ==
    \A x \in Occurrences(i) :
        /\ x[1] < x[2]
        /\ \A y \in Occurrences(i) : y # x => x[2] <= y[1] \/ y[2] <= x[1]

\* The backward automaton accepts exactly the reversals of the byte strings
\* the forward automaton accepts.
LanguagesReversed ==
    \A w \in Haystacks :
        is_match_state(regex.fw, Run(regex.fw, start_state(regex.fw), w))
            <=> is_match_state(regex.bw,
                               Run(regex.bw, start_state(regex.bw), Reverse(w)))

\* C7 amended: when the backward automaton accepts exactly the reversals of
\* what the forward automaton accepts, every accepted substring of H is
\* non-empty and no two of them share a byte, the ranges of the forward scan
\* of H and those of the backward scan of reverse(H) are mirror images of
\* each other.
MirrorSymmetryDisjoint ==
    BothCollected /\ DisjointOccurrences(1) /\ LanguagesReversed =>
        RangeSet(1) = {Mirror(r, Len(Hay(1))) : r \in RangeSet(2)}

\* Two disjoint occurrences, one of them two or more bytes long, were found in
\* both directions in a haystack that is not a palindrome.
MirrorSymmetryDisjointWitness ==
    /\ BothCollected
    /\ DisjointOccurrences(1)
    /\ LanguagesReversed
    /\ Hay(1) # Hay(2)
    /\ Len(emitted[1]) = 2
    /\ Len(emitted[2]) = 2
    /\ \E r \in RangeSet(2) : r.end >= r.start + 2

\* The last completed next() call of iterator i returned Some(a range).
ReturnedRange(i) == pc[i] = "idle" /\ ret[i] # <<>> /\ ret[i][1] # <<>>

\* C11: the bytes pulled from the caller's iterator exceed the position
\* counter by at most 1, the pending peeked byte; when a call has returned a
\* range ending at e, at most e+1 bytes have been pulled.
BoundedLookahead ==
    \A i \in Iters :
        /\ next_index[i] <= Pulled(i)
        /\ Pulled(i) <= next_index[i] + 1
        /\ Pulled(i) = next_index[i] + 1 =>
             haystack[i].peeked = <<<<Hay(i)[Pulled(i)]>>>>
        /\ ReturnedRange(i) => Pulled(i) <= ret[i][1][1].end + 1

\* A call returned a range ending at e before the end of input with the byte
\* at position e pulled and pending.
BoundedLookaheadWitness ==
    \E i \in Iters :
        /\ ReturnedRange(i)
        /\ ret[i][1][1].end < Len(Hay(i))
        /\ ret[i][1][1].start < ret[i][1][1].end
        /\ Pulled(i) = ret[i][1][1].end + 1
        /\ next_index[i] = ret[i][1][1].end

----------------------------------------------------------------------------
(* RegexBuilder::build, one compilation at a time.  While build runs, regex *)
(* holds its frame [re, at, bw, result]; no iterator exists yet.            *)

CompileErrors == {"Syntax", "StateIDOverflow"}

\* A pattern string, told by what the two compilations make of it: the forward
\* automaton and, for each direction, the error that compilation ends with.
Patterns ==
    [dfa : SmallAutomata,
     fw_err : {<<>>} \cup {<<e>> : e \in CompileErrors},
     bw_err : {<<>>} \cup {<<e>> : e \in CompileErrors}]

\* dense::Builder::build(re) with reverse(true) or without: Result<DFA, Error>.
Compile(re, reverse) ==
    LET failure == IF reverse THEN re.bw_err ELSE re.fw_err
    IN IF failure # <<>>
       THEN [tag |-> "Err", err |-> failure[1]]
       ELSE [tag |-> "Ok",
             val |-> IF reverse THEN ReversedAutomaton(re.dfa) ELSE re.dfa]

IsErr(c) == c.tag = "Err"

NoScan ==
    <<dfa, haystack, next_index, needs_advance, pc, states, remaining, ret,
      emitted>>

\* build(&self, re) is entered.
InitBuild ==
    /\ \E re \in Patterns :
         regex = [re |-> re, at |-> "bw", bw |-> <<>>, result |-> <<>>]
    /\ dfa = <<>>
    /\ haystack = <<>>
    /\ next_index = <<>>
    /\ needs_advance = <<>>
    /\ pc = <<>>
    /\ states = <<>>
    /\ remaining = <<>>
    /\ ret = <<>>
    /\ emitted = <<>>

\* Mutant of BuildBw: a failed compilation is replaced by an empty automaton.
BuildBwIgnoresError ==
    LET c == Compile(regex.re, TRUE)
    IN /\ regex.at = "bw"
       /\ regex' = [regex EXCEPT !.at = "fw",
                                 !.bw = IF IsErr(c)
                                        THEN <<DeadAutomaton>>
                                        ELSE <<c.val>>]
       /\ UNCHANGED NoScan

\* bw: self.0.clone().reverse(true).build(re)?,
BuildBw ==
    LET c == Compile(regex.re, TRUE)
    IN /\ regex.at = "bw"
       /\ regex' = IF IsErr(c)
                   THEN [regex EXCEPT !.at = "done", !.result = <<c>>]
                   ELSE [regex EXCEPT !.at = "fw", !.bw = <<c.val>>]
       /\ UNCHANGED NoScan

\* fw: self.0.build(re)?,  and Ok(Regex { bw, fw }); on an error the compiled
\* bw is dropped.
BuildFw ==
    LET c == Compile(regex.re, FALSE)
    IN /\ regex.at = "fw"
       /\ regex' = [regex EXCEPT
                      !.at = "done",
                      !.bw = <<>>,
                      !.result =
                          IF IsErr(c)
                          THEN <<c>>
                          ELSE <<[tag |-> "Ok",
                                  val |-> [fw |-> c.val, bw |-> regex.bw[1]]]>>]
       /\ UNCHANGED NoScan

NextBuild ==
    \/ BuildBw
    \/ BuildFw

SpecBuild == InitBuild /\ [][NextBuild]_vars

\* C14: build returns Ok(Regex) only if both compilations succeeded, and the
\* Regex then holds both automata; if either fails, build returns that
\* compilation's error (the reversed one is compiled first) and no Regex.
AllOrNothing ==
    LET re == regex.re
        bothCompile == re.fw_err = <<>> /\ re.bw_err = <<>>
        r == regex.result[1]
    IN /\ regex.at # "done" => regex.result = <<>>
       /\ regex.at = "done" =>
            /\ regex.result # <<>>
            /\ r.tag = "Ok" <=> bothCompile
            /\ r.tag = "Ok" =>
                 /\ DOMAIN r = {"tag", "val"}
                 /\ r.val = Build(re.dfa)
            /\ r.tag # "Ok" =>
                 /\ DOMAIN r = {"tag", "err"}
                 /\ r.tag = "Err"
                 /\ r.err = IF re.bw_err # <<>> THEN re.bw_err[1] ELSE re.fw_err[1]

\* The reversed automaton compiled, the forward one did not: build is done
\* and has returned the forward compilation's error.
AllOrNothingWitness ==
    /\ regex.at = "done"
    /\ regex.re.bw_err = <<>>
    /\ regex.re.fw_err = <<"StateIDOverflow">>
    /\ regex.result = <<[tag |-> "Err", err |-> "StateIDOverflow"]>>

----------------------------------------------------------------------------
(* One scan on its own: next() as a function of the iterator's own fields, *)
(* built from the same steps as the actions.                               *)

\* match_remaining run to its return: the range, the source and the counter.
RECURSIVE RemainingAlone(_, _, _, _, _)
RemainingAlone(d, h, index, state, start) ==
    LET p == PeekablePeek(h)
        s == next_state_unchecked(d, state, p.item[1])
    IN IF p.item = <<>> \/ ~is_match_state(d, s)
       THEN [mat |-> MatchRange(start, index), h |-> p.h, index |-> index]
       ELSE RemainingAlone(d, PeekableNext(p.h).h, Bump(index), s, start)

\* The sweep loop run to its return.
RECURSIVE SweepAlone(_, _, _, _)
SweepAlone(d, h, index, sts) ==
    LET r == PeekableNext(h)
        f == ForCandidates(d, Push(d, sts, index), r.item[1], 1)
        m == RemainingAlone(d, r.h, Bump(index), f.state, f.start)
    IN IF r.item = <<>>
       THEN [ret |-> <<>>, h |-> r.h, index |-> index]
       ELSE IF f.found
            THEN [ret |-> <<m.mat>>, h |-> m.h, index |-> m.index]
            ELSE SweepAlone(d, r.h, Bump(index), Retain(d, f.states))

\* One next() call on the iterator m = [h, index, advance].
NextAlone(d, m) ==
    LET r == PeekableNext(m.h)
        drained == m.advance /\ r.item = <<>>
        h == IF m.advance THEN r.h ELSE m.h
        index == IF m.advance THEN Bump(m.index) ELSE m.index
        e == RemainingAlone(d, h, index, start_state(d), index)
        w == SweepAlone(d, h, index, <<>>)
    IN IF drained
       THEN [ret |-> <<>>, m |-> [m EXCEPT !.h = r.h]]
       ELSE IF is_dead_state(d, start_state(d))
       THEN [ret |-> <<>>, m |-> [h |-> h, index |-> index, advance |-> FALSE]]
       ELSE IF is_match_state(d, start_state(d))
       THEN [ret |-> <<e.mat>>,
             m |-> [h |-> e.h, index |-> e.index, advance |-> IsZeroWidth(e.mat)]]
       ELSE [ret |-> w.ret, m |-> [h |-> w.h, index |-> w.index, advance |-> FALSE]]

\* collect(): the ranges up to the first None.
RECURSIVE CollectAlone(_, _)
CollectAlone(d, m) ==
    LET r == NextAlone(d, m)
    IN IF r.ret = <<>> THEN <<>> ELSE r.ret \o CollectAlone(d, r.m)

\* What a fresh scan of bytes with automaton d emits when it runs alone.
EmitsAlone(d, bytes) ==
    CollectAlone(d, [h |-> NewPeekable(bytes), index |-> 0, advance |-> FALSE])

IsPrefix(s, t) == Len(s) <= Len(t) /\ s = SubSeq(t, 1, Len(s))

\* Everything iterator i owns.
Owned(i) ==
    <<haystack[i], next_index[i], needs_advance[i], pc[i], states[i],
      remaining[i], ret[i], emitted[i]>>

\* C12: two iterators over one automaton, their next() calls interleaved in
\* any order, each emit exactly what they emit when run alone, and a step of
\* one iterator changes nothing the other owns and nothing of the Regex.
SharedAutomatonSafe ==
    /\ [](\A i \in Iters :
            /\ IsPrefix(emitted[i], EmitsAlone(Automaton(i), Hay(i)))
            /\ ReturnedNone(i) => emitted[i] = EmitsAlone(Automaton(i), Hay(i)))
    /\ [][/\ regex' = regex
          /\ dfa' = dfa
          /\ \A i \in Iters : \A j \in Iters \ {i} :
                Owned(i)' # Owned(i) => Owned(j)' = Owned(j)]_vars

\* Both scans found a match while the other one was in the middle of a call
\* at some point: both have emitted, one is still inside a sweep.
SharedAutomatonSafeWitness ==
    /\ Iters = {1, 2}
    /\ Hay(1) # Hay(2)
    /\ emitted[1] # <<>>
    /\ emitted[2] # <<>>
    /\ pc[2] = "sweep"
    /\ states[2] # <<>>
    /\ ReturnedNone(1)

LastRange(i) == emitted[i][Len(emitted[i])]

\* Some occurrence starts at position p of iterator i's haystack.
OccurrenceAt(i, p) == \E q \in p .. Len(Hay(i)) : Accepts(i, p, q)

\* After a non-zero-width range s..e the position counter and the consumed
\* bytes both stand at e with the flag clear: the byte that stopped the
\* extension is held peeked, not consumed.
StopByteKept ==
    \A i \in Iters :
        (pc[i] = "idle" /\ ReturnedRange(i) /\ ~IsZeroWidth(LastRange(i))) =>
            /\ next_index[i] = LastRange(i).end
            /\ Consumed(i) = LastRange(i).end
            /\ ~needs_advance[i]

\* The first sweep iteration after a non-zero-width range s..e reads byte e
\* and steps the candidate (e, start_state) over it.
CandidateAtEnd ==
    \A i \in Iters :
        (/\ pc[i] = "sweep"
         /\ emitted[i] # <<>>
         /\ next_index[i] = LastRange(i).end
         /\ next_index[i] < Len(Hay(i))
         /\ Owned(i)' # Owned(i)) =>
            LET d == Automaton(i)
                e == LastRange(i).end
                s == next_state_unchecked(d, start_state(d), Hay(i)[e + 1])
            IN /\ states[i] = <<>>
               /\ next_index'[i] = e + 1
               /\ IF is_match_state(d, s)
                  THEN pc'[i] = "remaining" /\ remaining'[i].start = e
                  ELSE pc'[i] = "sweep" /\ states'[i] = Retain(d, << <<e, s>> >>)

\* After a non-zero-width range s..e, an occurrence starting at e is the
\* next range's start, and the scan does not end while one exists.
AdjacentNotSkipped ==
    \A i \in Iters :
        /\ \A k \in 1 .. Len(emitted[i]) - 1 :
              (~IsZeroWidth(emitted[i][k]) /\ OccurrenceAt(i, emitted[i][k].end))
                  => emitted[i][k + 1].start = emitted[i][k].end
        /\ (ReturnedNone(i) /\ emitted[i] # <<>> /\ ~IsZeroWidth(LastRange(i)))
              => ~OccurrenceAt(i, LastRange(i).end)

\* C15: the byte that stops match extension is only peeked, so after a
\* non-zero-width range s..e the next call admits its first candidate at e
\* and examines byte e, and a match starting at e is found.
AdjacentMatchFound ==
    /\ [](StopByteKept /\ AdjacentNotSkipped)
    /\ [][CandidateAtEnd]_vars

\* The part of C15 about the peeked byte and the candidate admitted at e.
StopByteExamined == []StopByteKept /\ [][CandidateAtEnd]_vars

\* C16: right after a next() call that returned start..end the must-advance
\* flag is set exactly when end = start; a match found by the sweep loop
\* (start state not a match state) has end > start and leaves the flag clear.
MustAdvanceIffZeroWidth ==
    \A i \in Iters :
        LET d == Automaton(i)
        IN /\ ReturnedRange(i) =>
                (needs_advance[i] <=> ret[i][1][1].start = ret[i][1][1].end)
           /\ (pc[i] = "remaining" /\ remaining[i].caller = "sweep") =>
                /\ remaining[i].start < next_index[i]
                /\ ~needs_advance[i]
           /\ ~is_match_state(d, start_state(d)) =>
                /\ ~needs_advance[i]
                /\ \A k \in DOMAIN emitted[i] :
                      emitted[i][k].start < emitted[i][k].end

\* A call returned a zero-width range and left the flag set, after an
\* earlier call had returned a wider range and left it clear.
MustAdvanceIffZeroWidthWitness ==
    \E i \in Iters :
        /\ ReturnedRange(i)
        /\ Len(emitted[i]) >= 2
        /\ emitted[i][1].start < emitted[i][1].end
        /\ LastRange(i).start = LastRange(i).end
        /\ needs_advance[i]

\* C17: once a next() call has returned None, every later call returns None
\* and the position counter, the must-advance flag and the emitted ranges no
\* longer change.
ExhaustionPermanent ==
    [][\A i \in Iters :
          ret[i] = << <<>> >> =>
              /\ ret'[i] = ret[i]
              /\ next_index'[i] = next_index[i]
              /\ needs_advance'[i] = needs_advance[i]
              /\ emitted'[i] = emitted[i]]_vars

\* A later call is running its sweep after a call that returned None, in a
\* scan that had emitted a range.
ExhaustionPermanentWitness ==
    \E i \in Iters :
        /\ ret[i] = << <<>> >>
        /\ pc[i] = "sweep"
        /\ emitted[i] # <<>>

\* The candidate list before and after one sweep iteration that found no
\* match: the pushed list stepped over the byte read, its dead members gone.
SurvivorsInOrder ==
    \A i \in Iters :
        (pc[i] = "sweep" /\ pc'[i] = "sweep" /\ next_index'[i] # next_index[i]) =>
            LET d == Automaton(i)
                b == Hay(i)[next_index[i] + 1]
                pushed == Append(states[i], <<next_index[i], start_state(d)>>)
                stepped == [k \in DOMAIN pushed |->
                               <<pushed[k][1],
                                 next_state_unchecked(d, pushed[k][2], b)>>]
            IN states'[i] =
                   SelectSeq(stepped, LAMBDA c : ~is_dead_state(d, c[2]))

\* C19: the candidate list is sorted strictly ascending by start, every start
\* is below the position counter, no candidate is dead when a loop iteration
\* begins, and an iteration drops exactly the dead candidates, keeping the
\* survivors in order.
CandidatesSorted ==
    /\ [](\A i \in Iters :
            /\ \A k \in 1 .. Len(states[i]) - 1 :
                  states[i][k][1] < states[i][k + 1][1]
            /\ \A k \in DOMAIN states[i] : states[i][k][1] < next_index[i]
            /\ pc[i] = "sweep" =>
                  \A k \in DOMAIN states[i] :
                      ~is_dead_state(Automaton(i), states[i][k][2]))
    /\ [][SurvivorsInOrder]_vars

\* A loop iteration begins with two candidates after the first one admitted
\* has been dropped.
CandidatesSortedWitness ==
    \E i \in Iters :
        /\ pc[i] = "sweep"
        /\ Len(states[i]) >= 2
        /\ states[i][1][1] > 0

\* A loop iteration that does not end the call consumes one byte.
IterationConsumes ==
    (pc[1] \in {"sweep", "remaining"} /\ pc'[1] = pc[1]) =>
        /\ Consumed(1)' = Consumed(1) + 1
        /\ Consumed(1)' <= Len(Hay(1))

\* C18: every next() call returns, each of its loop iterations but the last
\* consuming one of the remaining bytes; at most n+1 ranges are emitted for a
\* haystack of n bytes, and repeated calls reach None.
ScanTerminates ==
    /\ [](Len(emitted[1]) <= Len(Hay(1)) + 1)
    /\ [][IterationConsumes]_vars
    /\ (pc[1] # "idle") ~> (pc[1] = "idle")
    /\ <>ReturnedNone(1)

\* A scan of MaxLen bytes ended with None after MaxLen + 1 zero-width ranges.
ScanTerminatesWitness ==
    /\ ReturnedNone(1)
    /\ Len(Hay(1)) = MaxLen
    /\ Len(emitted[1]) = MaxLen + 1
    /\ \A k \in DOMAIN emitted[1] : IsZeroWidth(emitted[1][k])
====
